---- MODULE Spec2Model ----
(***************************************************************************)
(* mutfs: a loopback FUSE node (MutNode) that gates destructive operations *)
(* behind deny(), which allows them only while the object's birth time     *)
(* (statx btime) is less than Grace ago.  The model follows the grace      *)
(* revision of the node (src/unnamed/part_003) and btime                   *)
(* (src/README.md:59-69).  The backing store is a two-level tree:          *)
(* root / directory / file.  Each handler is one atomic action, made of    *)
(* the code's own sequence of calls on the embedded LoopbackNode.          *)
(***************************************************************************)
EXTENDS Integers, Sequences, FiniteSets, TLC

VARIABLES
    Grace,      \* var Grace time.Duration, set by main from grace=<duration>
    Log,        \* var Log bool, set by main from the log option
    ro,         \* whether main appended "ro" to opts.MountOptions.Options
    statxMode,  \* what statx on the backing filesystem yields for btime
    now,        \* the wall clock read by time.Since
    store,      \* the backing store: path -> object
    pre,        \* the backing store as it was when the last handler was entered
    orig,       \* the backing store as it was when the mount was served
    last,       \* the last handler call: its arguments and what it returned
    proc,       \* where the process is: in main, serving the mount, or how it ended
    handles,    \* the files a client holds a writable file handle on
    denied,     \* the paths a client has seen deny refuse after the grace window
    run         \* a handler that is running beside the others, and where it is

vars == <<Grace, Log, ro, statxMode, now, store, pre, orig, last, proc, handles,
          denied, run>>

(* ------------------------------ bounds -------------------------------- *)

MaxTime == 3
MaxGrace == 2

\* the depth at which the Go runtime stops a goroutine whose stack keeps growing
MaxStack == 3

(* time.Unix(0, 0): what btime returns for a zeroed statx.Btime *)
Epoch == 0

NowInit == Epoch + 1

Dirs == {"d1", "d2"}
Names == {"a"}

(* ------------------------------ paths --------------------------------- *)

Root == <<>>

DirPaths == {<<d>> : d \in Dirs}

FilePaths == {<<d, n>> : d \in Dirs, n \in Names}

Paths == {Root} \cup DirPaths \cup FilePaths

Parent(p) == SubSeq(p, 1, Len(p) - 1)

\* filepath.Join(path, name): an empty name adds nothing
Join(p, name) == IF name = "" THEN p ELSE Append(p, name)

(* ------------------------------ objects ------------------------------- *)

NoObj == [kind |-> "none", btime |-> Epoch, content |-> "none", meta |-> "none"]

DirObj(bt) == [kind |-> "dir", btime |-> bt, content |-> "dir", meta |-> "orig"]

FileObj(bt, c) == [kind |-> "file", btime |-> bt, content |-> c, meta |-> "orig"]

Exists(st, p) == st[p].kind # "none"

(* ------------------------------ open flags ---------------------------- *)

\* acc: 0 O_RDONLY, 1 O_WRONLY, 2 O_RDWR; bits: the other flags that are set.
\* LARGEFILE is the 0x8000 the node masks out.
FlagBits == {"CREAT", "TRUNC", "APPEND", "EXCL", "LARGEFILE", "NONBLOCK"}

Fl(acc, bits) == [acc |-> acc, bits |-> bits]

\* the flag words the requests carry
Flags ==
    {Fl(0, {}), Fl(0, {"LARGEFILE"}), Fl(0, {"NONBLOCK"}), Fl(1, {}), Fl(2, {}),
     Fl(0, {"APPEND"}), Fl(0, {"TRUNC"}), Fl(1, {"TRUNC"}),
     Fl(0, {"CREAT"}), Fl(1, {"CREAT"}), Fl(1, {"CREAT", "TRUNC"}),
     Fl(1, {"CREAT", "EXCL"})}

\* FUSE_CREATE always carries O_CREAT
CreateFlags == {f \in Flags : f.acc = 1 /\ "CREAT" \in f.bits}

O_RDONLY == [acc |-> 0, bits |-> {}]

NoFlags == O_RDONLY

Has(flags, b) == b \in flags.bits

Clear(flags, b) == [flags EXCEPT !.bits = @ \ {b}]

With(flags, b) == [flags EXCEPT !.bits = @ \cup {b}]

(* ------------------------------ btime --------------------------------- *)

\* unix.Statx + time.Unix(statx.Btime.Sec, statx.Btime.Nsec).  statx fails for a
\* path that does not exist and where the call is not supported; where the
\* filesystem reports no birth time the call succeeds with Btime left zero.
btime(st, name) ==
    IF ~Exists(st, name) \/ statxMode = "err"
    THEN [err |-> TRUE, t |-> Epoch]
    ELSE IF statxMode = "nobtime"
    THEN [err |-> FALSE, t |-> Epoch]
    ELSE [err |-> FALSE, t |-> st[name].btime]

\* time.Since(bt)
Since(bt) == now - bt

(* ------------------------------ deny ---------------------------------- *)

\* what a handler runs with: the value of Log, and whether fuse.FromContext finds
\* a caller in the request context (the ok that deny discards)
Ctx(log, caller) == [log |-> log, caller |-> caller]

\* log.Printf(..., caller.Pid, ...): caller is nil when the context carries none,
\* and reading caller.Pid is then a nil pointer dereference
Printf(c, errno) == IF c.caller THEN errno ELSE "panic"

\* deny with the window closed one tick late (since <= Grace)
denyOff(c, st, n, name) ==
    LET bt == btime(st, Join(n, name))
    IN IF ~bt.err /\ Since(bt.t) <= Grace
       THEN IF ~c.log THEN "OK" ELSE Printf(c, "OK")
       ELSE IF ~c.log THEN "EACCES" ELSE Printf(c, "EACCES")

\* deny whose logging branch falls through to the denial
denyLoud(c, st, n, name) ==
    LET bt == btime(st, Join(n, name))
    IN IF ~bt.err /\ Since(bt.t) < Grace /\ ~c.log
       THEN "OK"
       ELSE IF ~c.log THEN "EACCES" ELSE Printf(c, "EACCES")

\* deny that answers a refusal with EPERM
denyPerm(c, st, n, name) ==
    LET bt == btime(st, Join(n, name))
    IN IF ~bt.err /\ Since(bt.t) < Grace
       THEN IF ~c.log THEN "OK" ELSE Printf(c, "OK")
       ELSE IF ~c.log THEN "EPERM" ELSE Printf(c, "EPERM")

\* MutNode.deny: OK within grace of the birth time of <node path>/<name>
deny(c, st, n, name) ==
    LET actualPath == Join(n, name)
        bt == btime(st, actualPath)
    IN IF ~bt.err /\ Since(bt.t) < Grace
       THEN IF ~c.log THEN "OK" ELSE Printf(c, "OK")
       ELSE IF ~c.log THEN "EACCES" ELSE Printf(c, "EACCES")

\* the records deny writes with log.Printf: one on either branch when Log is set
denyLogs(c, errno) == IF c.log /\ errno # "panic" THEN 1 ELSE 0

(* ------------------------ the backing filesystem ---------------------- *)

Ret(errno, st) == [errno |-> errno, st |-> st]

\* syscall.Open(p, flags, mode) on the backing store (Linux: O_TRUNC truncates
\* an existing regular file whatever the access mode)
sysOpen(st, p, flags) ==
    IF ~Exists(st, Parent(p)) THEN Ret("ENOENT", st)
    ELSE IF ~Exists(st, p)
    THEN IF Has(flags, "CREAT")
         THEN Ret("OK", [st EXCEPT ![p] = FileObj(now, "empty")])
         ELSE Ret("ENOENT", st)
    ELSE IF Has(flags, "CREAT") /\ Has(flags, "EXCL") THEN Ret("EEXIST", st)
    ELSE IF Has(flags, "TRUNC")
    THEN Ret("OK", [st EXCEPT ![p].content = "empty"])
    ELSE Ret("OK", st)

\* LoopbackNode.Open: flags &^ O_APPEND, then syscall.Open(path, flags, 0)
LoopbackOpen(st, p, flags) == sysOpen(st, p, Clear(flags, "APPEND"))

\* LoopbackNode.Create: syscall.Open(path/name, flags&^O_APPEND | O_CREAT, mode)
LoopbackCreate(st, p, flags) == sysOpen(st, p, With(Clear(flags, "APPEND"), "CREAT"))

\* LoopbackNode.Mkdir: os.Mkdir
LoopbackMkdir(st, p) ==
    IF ~Exists(st, Parent(p)) THEN Ret("ENOENT", st)
    ELSE IF Exists(st, p) THEN Ret("EEXIST", st)
    ELSE Ret("OK", [st EXCEPT ![p] = DirObj(now)])

\* LoopbackNode.Unlink: syscall.Unlink
LoopbackUnlink(st, p) ==
    IF ~Exists(st, p) THEN Ret("ENOENT", st)
    ELSE Ret("OK", [st EXCEPT ![p] = NoObj])

\* LoopbackNode.Rmdir: syscall.Rmdir
LoopbackRmdir(st, p) ==
    IF ~Exists(st, p) THEN Ret("ENOENT", st)
    ELSE IF \E q \in FilePaths : Parent(q) = p /\ Exists(st, q)
    THEN Ret("ENOTEMPTY", st)
    ELSE Ret("OK", [st EXCEPT ![p] = NoObj])

\* LoopbackNode.Rename with flags 0: syscall.Rename, which replaces the destination
LoopbackRename(st, src, dst) ==
    IF ~Exists(st, src) \/ ~Exists(st, Parent(dst)) THEN Ret("ENOENT", st)
    ELSE IF src = dst THEN Ret("OK", st)
    ELSE Ret("OK", [st EXCEPT ![dst] = st[src], ![src] = NoObj])

\* a Setattr that also resets the birth time
LoopbackSetattrBirth(st, p, size) ==
    IF ~Exists(st, p) THEN Ret("ENOENT", st)
    ELSE IF size THEN Ret("OK", [st EXCEPT ![p].content = "empty", ![p].btime = now])
    ELSE Ret("OK", [st EXCEPT ![p].meta = "set", ![p].btime = now])

\* LoopbackNode.Setattr: with a size it truncates, else it changes mode, owner or times
LoopbackSetattr(st, p, size) ==
    IF ~Exists(st, p) THEN Ret("ENOENT", st)
    ELSE IF size THEN Ret("OK", [st EXCEPT ![p].content = "empty"])
    ELSE Ret("OK", [st EXCEPT ![p].meta = "set"])

\* LoopbackNode.Setxattr / Removexattr
LoopbackXattr(st, p) ==
    IF ~Exists(st, p) THEN Ret("ENOENT", st)
    ELSE Ret("OK", [st EXCEPT ![p].meta = "set"])

\* loopbackFile.Setlkw: flock / fcntl on the descriptor of an open file
LoopbackSetlkw(st, p) ==
    IF ~Exists(st, p) THEN Ret("ENOENT", st) ELSE Ret("OK", st)

\* loopbackFile.Write: syscall.Pwrite on the descriptor of an open file
LoopbackWrite(st, p) ==
    IF ~Exists(st, p) THEN Ret("ENOENT", st)
    ELSE Ret("OK", [st EXCEPT ![p].content = "written"])

(* -------------------------- handler outcomes -------------------------- *)

\* what btime gave deny: "err", "zero" (statx reported no birth time) or "time"
Lookup(st, name) ==
    IF btime(st, name).err THEN "err"
    ELSE IF statxMode = "nobtime" THEN "zero" ELSE "time"

\* errno: what the handler returns; verdict: what deny returned, chk: the path
\* whose birth time it read and bt: what the lookup gave ("none": deny was not
\* called); fwd: calls made on the embedded LoopbackNode; handle: a file handle
\* is returned; leaked: file descriptors opened on the backing store and not
\* returned; logs: log records written.
Out(errno, st, verdict, chk, bt, fwd, handle, leaked, logs) ==
    [errno |-> errno, st |-> st, verdict |-> verdict, chk |-> chk, bt |-> bt,
     fwd |-> fwd, handle |-> handle, leaked |-> leaked, logs |-> logs]

\* the switch of MutNode.Open: O_APPEND, O_WRONLY, O_TRUNC or O_RDWR is set
WriteIntent(flags) ==
    Has(flags, "APPEND") \/ flags.acc = 1 \/ Has(flags, "TRUNC") \/ flags.acc = 2

\* errno := n.deny(ctx, name); if errno != fs.OK { return errno }; return
\* n.LoopbackNode.<op>(...)
Gated(c, n, name, r) ==
    LET errno == deny(c, store, n, name)
        chk == Join(n, name)
    IN IF errno # "OK"
       THEN Out(errno, store, errno, chk, Lookup(store, chk), 0, FALSE, 0,
                denyLogs(c, errno))
       ELSE Out(r.errno, r.st, errno, chk, Lookup(store, chk), 1, FALSE, 0,
                denyLogs(c, errno))

UnlinkOut(c, d, name) == Gated(c, <<d>>, name, LoopbackUnlink(store, <<d, name>>))

RmdirOut(c, name) == Gated(c, Root, name, LoopbackRmdir(store, <<name>>))

RemovexattrOut(c, n) == Gated(c, n, "", LoopbackXattr(store, n))

SetxattrOut(c, n) == Gated(c, n, "", LoopbackXattr(store, n))

SetattrOut(c, n, size) == Gated(c, n, "", LoopbackSetattr(store, n, size))

\* n is the directory the entry is renamed from; deny is called with name ""
RenameOut(c, d, name, d2, newName) ==
    Gated(c, <<d>>, "", LoopbackRename(store, <<d, name>>, <<d2, newName>>))

OpenOut(c, n, flags) ==
    LET creat == Has(flags, "CREAT")
        r1 == LoopbackOpen(store, n, flags)
        st1 == IF creat THEN r1.st ELSE store
        fwd1 == IF creat THEN 1 ELSE 0
        \* fs1 is dropped when errno1 is not ENOENT: its descriptor stays open
        leak1 == IF creat /\ r1.errno = "OK" THEN 1 ELSE 0
    IN IF creat /\ r1.errno = "ENOENT"
       THEN Out("ENOENT", st1, "none", Root, "none", fwd1, FALSE, 0, 0)
       ELSE IF WriteIntent(flags)
       THEN LET errno == deny(c, st1, n, "")
                r2 == LoopbackOpen(st1, n, flags)
            IN IF errno # "OK"
               THEN Out(errno, st1, errno, n, Lookup(st1, n), fwd1, FALSE, leak1,
                        denyLogs(c, errno))
               ELSE Out(r2.errno, r2.st, errno, n, Lookup(st1, n), fwd1 + 1,
                        r2.errno = "OK", leak1, denyLogs(c, errno))
       ELSE IF Clear(flags, "LARGEFILE") = O_RDONLY
       THEN LET r3 == LoopbackOpen(st1, n, Clear(flags, "LARGEFILE"))
            IN Out(r3.errno, r3.st, "none", Root, "none", fwd1 + 1, r3.errno = "OK",
                   leak1, 0)
       ELSE Out("EACCES", st1, "none", Root, "none", fwd1, FALSE, leak1, 0)

\* MutNode has no Create or Mkdir of its own: the embedded LoopbackNode's run
CreateOut(p, flags) ==
    LET r == LoopbackCreate(store, p, flags)
    IN Out(r.errno, r.st, "none", Root, "none", 1, r.errno = "OK", 0, 0)

MkdirOut(p) ==
    LET r == LoopbackMkdir(store, p)
    IN Out(r.errno, r.st, "none", Root, "none", 1, FALSE, 0, 0)

\* MutNode has no Setlkw: the request goes to the file handle the embedded
\* LoopbackNode returned at Open, and deny is not called
SetlkwOut(p) ==
    LET r == LoopbackSetlkw(store, p)
    IN Out(r.errno, r.st, "none", Root, "none", 1, FALSE, 0, 0)

\* MutNode has no Write: the request goes to the file handle
WriteOut(p) ==
    LET r == LoopbackWrite(store, p)
    IN Out(r.errno, r.st, "none", Root, "none", 1, FALSE, 0, 0)

\* the request is dispatched on the interfaces MutNode implements
Handle(c, op, p, dst, flags, size) ==
    CASE op = "Unlink" -> UnlinkOut(c, p[1], p[2])
      [] op = "Rmdir" -> RmdirOut(c, p[1])
      [] op = "Removexattr" -> RemovexattrOut(c, p)
      [] op = "Setxattr" -> SetxattrOut(c, p)
      [] op = "Setattr" -> SetattrOut(c, p, size)
      [] op = "Rename" -> RenameOut(c, p[1], p[2], dst[1], dst[2])
      [] op = "Open" -> OpenOut(c, p, flags)
      [] op = "Create" -> CreateOut(p, flags)
      [] op = "Mkdir" -> MkdirOut(p)
      [] op = "Setlkw" -> SetlkwOut(p)
      [] op = "Write" -> WriteOut(p)

(* ------------------------------ actions ------------------------------- *)

\* a request is dispatched to its handler when no reply is outstanding.  altErrno
\* and altSame: what the same request returns and whether it leaves the same
\* backing store when Log has the other value.  A panic in the handler ends the
\* process.
Call(caller, op, p, dst, flags, size) ==
    /\ proc = "serving"
    /\ last.op = "none"
    /\ \E out \in {Handle(Ctx(Log, caller), op, p, dst, flags, size)},
          alt \in {Handle(Ctx(~Log, caller), op, p, dst, flags, size)} :
          /\ store' = out.st
          /\ pre' = store
          /\ last' = [op |-> op, path |-> p, dst |-> dst, flags |-> flags,
                      errno |-> out.errno, verdict |-> out.verdict,
                      chk |-> out.chk, bt |-> out.bt, fwd |-> out.fwd,
                      handle |-> out.handle, leaked |-> out.leaked,
                      logs |-> out.logs, caller |-> caller,
                      altErrno |-> alt.errno, altSame |-> (alt.st = out.st)]
          /\ proc' = IF out.errno = "panic" THEN "panic" ELSE proc
    /\ UNCHANGED <<Grace, Log, ro, statxMode, now, orig, handles, denied, run>>

Idle == [op |-> "none", path |-> Root, dst |-> Root, flags |-> NoFlags,
         errno |-> "OK", verdict |-> "none", chk |-> Root, bt |-> "none",
         fwd |-> 0, handle |-> FALSE, leaked |-> 0, logs |-> 0, caller |-> TRUE,
         altErrno |-> "OK", altSame |-> TRUE]

\* the requests the FUSE server hands to the node carry the caller
Unlink == \E d \in Dirs, name \in Names :
    Call(TRUE, "Unlink", <<d, name>>, Root, NoFlags, FALSE)

Rmdir == \E d \in Dirs :
    Call(TRUE, "Rmdir", <<d>>, Root, NoFlags, FALSE)

Removexattr == \E p \in FilePaths :
    Call(TRUE, "Removexattr", p, Root, NoFlags, FALSE)

Setxattr == \E p \in FilePaths :
    Call(TRUE, "Setxattr", p, Root, NoFlags, FALSE)

Setattr == \E p \in FilePaths, size \in BOOLEAN :
    Call(TRUE, "Setattr", p, Root, NoFlags, size)

Rename == \E d \in Dirs, name \in Names, d2 \in Dirs, newName \in Names :
    Call(TRUE, "Rename", <<d, name>>, <<d2, newName>>, NoFlags, FALSE)

Open == \E p \in FilePaths, flags \in Flags :
    Call(TRUE, "Open", p, Root, flags, FALSE)

Create == \E p \in FilePaths, flags \in CreateFlags :
    Call(TRUE, "Create", p, Root, flags, FALSE)

Mkdir == \E p \in DirPaths :
    Call(TRUE, "Mkdir", p, Root, NoFlags, FALSE)

\* a request for a write lock on an open file
Setlkw == \E p \in FilePaths :
    Call(TRUE, "Setlkw", p, Root, NoFlags, FALSE)

\* a handler called with a context that carries no caller (context.Background())
Bare == \E op \in {"Unlink", "Removexattr", "Setxattr", "Setattr", "Open"},
           p \in FilePaths, flags \in {Fl(1, {})} :
    Call(FALSE, op, p, Root, IF op = "Open" THEN flags ELSE NoFlags, FALSE)

\* a reply that turns logging off
ReplyUnlog ==
    /\ proc = "serving"
    /\ last.op # "none"
    /\ last' = Idle
    /\ pre' = store
    /\ Log' = FALSE
    /\ UNCHANGED <<Grace, ro, statxMode, now, store, orig, proc, handles, denied, run>>

\* the handler's result is sent back as the reply to the request; a file handle
\* it carries is closed again by the client
Reply ==
    /\ proc = "serving"
    /\ last.op # "none"
    /\ last' = Idle
    /\ pre' = store
    /\ UNCHANGED <<Grace, Log, ro, statxMode, now, store, orig, proc, handles,
                   denied, run>>

\* the reply carries a file handle opened for writing and the client keeps it
Keep ==
    /\ proc = "serving"
    /\ last.op \in {"Open", "Create"}
    /\ last.handle
    /\ last.flags.acc # 0
    /\ handles' = handles \cup {last.path}
    /\ last' = Idle
    /\ pre' = store
    /\ UNCHANGED <<Grace, Log, ro, statxMode, now, store, orig, proc, denied, run>>

\* a write through a file handle the client holds
Write == \E p \in handles :
    Call(TRUE, "Write", p, Root, NoFlags, FALSE)

\* the client closes a file handle
Release == \E p \in handles :
    /\ proc = "serving"
    /\ last.op = "none"
    /\ handles' = handles \ {p}
    /\ UNCHANGED <<Grace, Log, ro, statxMode, now, store, pre, orig, last, proc,
                   denied, run>>

\* the reply is a refusal for an expired grace window, and the client notes the
\* path deny looked at
Note ==
    /\ proc = "serving"
    /\ last.verdict = "EACCES"
    /\ last.bt = "time"
    /\ denied' = denied \cup {last.chk}
    /\ last' = Idle
    /\ pre' = store
    /\ UNCHANGED <<Grace, Log, ro, statxMode, now, store, orig, proc, handles, run>>

\* no handler is running beside the others
NoRun == [op |-> "none", path |-> Root, chk |-> Root, seen |-> Epoch, depth |-> 0]

\* a handler that runs concurrently with the others, up to the return of deny:
\* errno := n.deny(ctx, name) has returned OK for the object born at seen
Check == \E op \in {"Unlink", "Setattr"}, p \in FilePaths :
    /\ proc = "serving"
    /\ last.op = "none"
    /\ run.op = "none"
    /\ "OK" = IF op = "Unlink" THEN deny(Ctx(Log, TRUE), store, Parent(p), p[2])
                               ELSE deny(Ctx(Log, TRUE), store, p, "")
    /\ run' = [op |-> op, path |-> p, chk |-> p, seen |-> store[p].btime, depth |-> 0]
    /\ UNCHANGED <<Grace, Log, ro, statxMode, now, store, pre, orig, last, proc,
                   handles, denied>>

\* the rest of that handler: return n.LoopbackNode.Unlink(ctx, name), or
\* n.LoopbackNode.Setattr with a size, on the backing store as it is by then
Forward ==
    /\ proc = "serving"
    /\ last.op = "none"
    /\ run.op # "none"
    /\ run.depth = 0
    /\ \E r \in {IF run.op = "Unlink" THEN LoopbackUnlink(store, run.path)
                                       ELSE LoopbackSetattr(store, run.path, TRUE)} :
          /\ store' = r.st
          /\ last' = [Idle EXCEPT !.op = run.op, !.path = run.path,
                                  !.errno = r.errno, !.altErrno = r.errno,
                                  !.verdict = "OK", !.chk = run.chk, !.bt = "time",
                                  !.fwd = 1,
                                  !.logs = denyLogs(Ctx(Log, TRUE), "OK")]
    /\ pre' = store
    /\ run' = NoRun
    /\ UNCHANGED <<Grace, Log, ro, statxMode, now, orig, proc, handles, denied>>

\* the linger revision (src/main.go): Setxattr is entered on a node whose ctime,
\* taken from stat when the node was made, is ct
LingerSetxattr == \E p \in FilePaths, ct \in Epoch..MaxTime :
    /\ proc = "serving"
    /\ last.op = "none"
    /\ run.op = "none"
    /\ ct <= now
    /\ Exists(store, p)
    /\ run' = [op |-> "Setxattr", path |-> p, chk |-> p, seen |-> ct, depth |-> 1]
    /\ UNCHANGED <<Grace, Log, ro, statxMode, now, store, pre, orig, last, proc,
                   handles, denied>>

\* the linger revision's deny (Linger is the window the grace revision calls
\* Grace): OK while Linger > 0 and time.Since(n.ctime) < Linger
lingerDeny(ct) == IF Grace > 0 /\ Since(ct) < Grace THEN "OK" ELSE "EACCES"

\* the body of the linger revision's Setxattr: err := n.deny(ctx, ""); if it is
\* not OK return 0, err; else return n.Setxattr(ctx, attr, data), the method
\* itself.  The runtime ends the process when the stack has grown too far.
Recurse ==
    /\ proc = "serving"
    /\ last.op = "none"
    /\ run.op = "Setxattr"
    /\ run.depth > 0
    /\ IF lingerDeny(run.seen) # "OK"
       THEN /\ run' = NoRun
            /\ last' = [Idle EXCEPT !.op = "Setxattr", !.path = run.path,
                                    !.errno = "EACCES", !.altErrno = "EACCES",
                                    !.verdict = "EACCES", !.chk = run.chk,
                                    !.logs = denyLogs(Ctx(Log, TRUE), "EACCES")]
            /\ pre' = store
            /\ proc' = proc
       ELSE /\ run' = [run EXCEPT !.depth = IF @ < MaxStack THEN @ + 1 ELSE @]
            /\ proc' = IF run.depth < MaxStack THEN proc ELSE "panic"
            /\ UNCHANGED <<last, pre>>
    /\ UNCHANGED <<Grace, Log, ro, statxMode, now, store, orig, handles, denied>>

\* the clock advances between requests
Tick ==
    /\ proc = "serving"
    /\ last.op = "none"
    /\ now < MaxTime
    /\ now' = now + 1
    /\ UNCHANGED <<Grace, Log, ro, statxMode, store, pre, orig, last, proc, handles,
                   denied, run>>

(* ------------------------------ main ---------------------------------- *)

\* what os.Stat finds at a path argument
ArgKinds == {"dir", "file", "missing"}

\* how main leaves the start: "usage" (fewer than two arguments), "nodir" (an
\* argument that is no directory), "badgrace" (grace= does not parse),
\* "mountfail" (fs.Mount fails), or "serving" (server.Wait)
Startup(nargs, olddir, newdir, graceOK, mountOK) ==
    IF nargs < 2 THEN "usage"
    ELSE IF olddir # "dir" \/ newdir # "dir" THEN "nodir"
    ELSE IF ~graceOK THEN "badgrace"
    ELSE IF ~mountOK THEN "mountfail"
    ELSE "serving"

\* the exit status: os.Exit(2) after the usage text, 1 from log.Fatalf, 2 from
\* the Go runtime after a panic
ExitStatus(p) ==
    CASE p = "usage" -> 2
      [] p \in {"nodir", "badgrace", "mountfail"} -> 1
      [] p = "panic" -> 2

\* fs.Mount has been called
MountAttempted(p) == p \in {"mountfail", "serving", "panic"}

\* main, from flag.Parse to server.Wait
Start ==
    \E nargs \in 0..2, olddir \in ArgKinds, newdir \in ArgKinds,
       graceOK \in BOOLEAN, mountOK \in BOOLEAN,
       grace \in 0..MaxGrace, log \in BOOLEAN, r \in BOOLEAN :
        LET p == Startup(nargs, olddir, newdir, graceOK, mountOK)
            parsed == p \in {"mountfail", "serving"}
        IN /\ proc = "start"
           /\ proc' = p
           /\ Grace' = IF parsed THEN grace ELSE Grace
           /\ Log' = IF parsed THEN log ELSE Log
           /\ ro' = IF parsed THEN r ELSE ro
           /\ UNCHANGED <<statxMode, now, store, pre, orig, last, handles, denied,
                          run>>

(* ------------------------------ Init ---------------------------------- *)

\* a tree the overlay is mounted on: d1 (born at dbt) holding a (born at abt)
Tree(dbt, abt) ==
    [p \in Paths |->
        IF p = Root THEN DirObj(Epoch)
        ELSE IF p = <<"d1">> THEN DirObj(dbt)
        ELSE IF p = <<"d1", "a">> THEN FileObj(abt, "orig")
        ELSE NoObj]

\* d1 is old, or was made just before the mount and an old file moved into it
InitTrees == {Tree(Epoch, Epoch), Tree(NowInit, Epoch)}

\* a carries a birth time ahead of the clock (the clock was set back)
SkewTrees == {Tree(Epoch, NowInit + 1)}

\* main: the option loop sets Log and Grace and passes ro on as a mount option;
\* the mount is then served
main(trees) ==
    /\ Grace \in 0..MaxGrace
    /\ Log \in BOOLEAN
    /\ ro \in BOOLEAN
    /\ statxMode \in {"btime", "nobtime", "err"}
    /\ now = NowInit
    /\ store \in trees
    /\ pre = store
    /\ orig = store
    /\ last = Idle
    /\ proc = "serving"
    /\ handles = {}
    /\ denied = {}
    /\ run = NoRun

Init == main(InitTrees)

InitSkew == main(InitTrees \cup SkewTrees)

\* the process as it enters main: Log, Grace and the mount options are unset
InitMain ==
    /\ Grace = 0
    /\ Log = FALSE
    /\ ro = FALSE
    /\ statxMode = "btime"
    /\ now = NowInit
    /\ store = Tree(Epoch, Epoch)
    /\ pre = store
    /\ orig = store
    /\ last = Idle
    /\ proc = "start"
    /\ handles = {}
    /\ denied = {}
    /\ run = NoRun

\* the mount served over a filesystem with birth times, logging off
InitHandles == Init /\ statxMode = "btime" /\ ~Log /\ ~ro

\* the mount served without the ro option, which deny does not read
InitCtx == Init /\ ~ro

Next ==
    \/ Unlink
    \/ Rmdir
    \/ Removexattr
    \/ Setxattr
    \/ Setattr
    \/ Rename
    \/ Open
    \/ Create
    \/ Mkdir
    \/ Setlkw
    \/ Reply
    \/ Tick

\* the handlers are also called with contexts that carry no caller
NextCtx == Next \/ Bare

\* the process from the start of main, serving the handlers MutNode defines
NextMain ==
    \/ Start
    \/ Unlink
    \/ Rmdir
    \/ Removexattr
    \/ Setxattr
    \/ Setattr
    \/ Rename
    \/ Open
    \/ Reply
    \/ Tick

\* clients keep the file handles Open gives them, write through them and close
\* them
NextHandles ==
    \/ Open
    \/ Mkdir
    \/ Reply
    \/ Keep
    \/ Write
    \/ Release
    \/ Tick

\* clients also keep the file handles Create gives them
NextCreate == NextHandles \/ Create

\* clients note the refusals they get
NextPerm ==
    \/ Unlink
    \/ Rename
    \/ Open
    \/ Create
    \/ Mkdir
    \/ Reply
    \/ Note
    \/ Tick

\* one Unlink or Setattr runs concurrently with the other handlers
NextRace ==
    \/ Rename
    \/ Open
    \/ Create
    \/ Mkdir
    \/ Reply
    \/ Tick
    \/ Check
    \/ Forward

\* the Setxattr of the linger revision
NextLinger ==
    \/ LingerSetxattr
    \/ Recurse
    \/ Open
    \/ Mkdir
    \/ Reply
    \/ Tick

Spec == Init /\ [][Next]_vars

\* the same node over a tree with a birth time ahead of the clock
SpecSkew == InitSkew /\ [][Next]_vars

SpecCtx == InitCtx /\ [][NextCtx]_vars

SpecMain == InitMain /\ [][NextMain]_vars

SpecHandles == InitHandles /\ [][NextHandles]_vars

SpecCreate == InitHandles /\ [][NextCreate]_vars

SpecPerm == InitHandles /\ [][NextPerm]_vars

SpecRace == InitHandles /\ [][NextRace]_vars

SpecLinger == InitHandles /\ [][NextLinger]_vars

(* ------------------------------ claims -------------------------------- *)

\* the request whose reply is outstanding is one the node gates through deny
Destructive ==
    \/ last.op \in {"Unlink", "Rmdir", "Rename", "Setattr", "Setxattr", "Removexattr"}
    \/ last.op = "Open" /\ WriteIntent(last.flags)

\* a request to create the object at last.path
CreateRequest ==
    \/ last.op \in {"Create", "Mkdir"}
    \/ last.op = "Open" /\ Has(last.flags, "CREAT")

\* the age, when the handler was entered, of the object at p
Age(p) == now - pre[p].btime

\* C1: an object that was at least Grace old when the mount was served stays in
\* the backing store under its name, unchanged, whatever requests are handled.
C1_AppendOnly ==
    \A p \in Paths :
        (Exists(orig, p) /\ NowInit - orig[p].btime >= Grace) => store[p] = orig[p]

\* C2: where the birth time of the object deny looks at is available, deny
\* returns OK exactly when the time elapsed since then is less than Grace; with
\* the elapsed time equal to Grace it returns EACCES.
C2_GraceBoundary ==
    (last.verdict # "none" /\ statxMode = "btime" /\ Exists(pre, last.chk)) =>
        /\ last.verdict = "OK" <=> Age(last.chk) < Grace
        /\ Age(last.chk) = Grace => last.verdict = "EACCES"

\* C2 witness: deny has refused an object whose age is exactly a positive Grace
C2_Witness ==
    /\ last.verdict = "EACCES"
    /\ statxMode = "btime"
    /\ Exists(pre, last.chk)
    /\ Grace > 0
    /\ Age(last.chk) = Grace

\* C3: when the lookup of the birth time fails or gives no birth time, deny
\* returns EACCES for every Grace, and EACCES is what the caller gets.
C3_FailClosed ==
    last.bt \in {"err", "zero"} => (last.verdict = "EACCES" /\ last.errno = "EACCES")

\* C4: with Grace = 0 every destructive request on an existing object is
\* answered EACCES, whatever its birth time and the clock are.
C4_NoGraceDenies ==
    (Grace = 0 /\ Destructive /\ Exists(pre, last.path)) => last.errno = "EACCES"

C6_CreateExempt ==
    (~ro /\ CreateRequest /\ ~Exists(pre, last.path) /\ Exists(pre, Parent(last.path))) =>
        (last.errno = "OK" /\ Exists(store, last.path) /\ last.verdict = "none")

\* C7: a create request for a path that is in the backing store succeeds only
\* while that object is younger than Grace; otherwise it is answered EACCES.
C7_CreateOnExisting ==
    (statxMode = "btime" /\ last.op \in {"Create", "Open"} /\ Has(last.flags, "CREAT")
        /\ Exists(pre, last.path) /\ Age(last.path) >= Grace) =>
            last.errno = "EACCES"

\* C8: a request answered EACCES has left the backing store as it was and has
\* left no file open on it.
C8_DenialNoEffect ==
    last.errno = "EACCES" => (store = pre /\ last.leaked = 0)

\* C9: the verdict of a gated request is that of the object it modifies or
\* removes: it is OK exactly when that object's own age is less than Grace.
C9_PerObject ==
    (Destructive /\ last.verdict # "none" /\ statxMode = "btime"
        /\ Exists(pre, last.path)) =>
            (last.verdict = "OK" <=> Age(last.path) < Grace)

\* C10: an Open of an existing object with a write-intent flag calls the
\* backing filesystem exactly when deny returns OK; otherwise it returns EACCES
\* and no file handle.
C10_WriteOpenGated ==
    (last.op = "Open" /\ WriteIntent(last.flags) /\ Exists(pre, last.path)) =>
        /\ last.fwd > 0 <=> last.verdict = "OK"
        /\ last.verdict # "OK" => (last.errno = "EACCES" /\ ~last.handle)

\* C11: every write through a file handle reaches an object whose age is less
\* than Grace; after the grace window of an object no write to it succeeds.
C11_WritesInGrace ==
    (last.op = "Write" /\ last.errno = "OK") => Age(last.path) < Grace

\* C12: a write lock on an existing object is forwarded to the backing
\* filesystem exactly when the object's age is less than Grace, and is answered
\* EACCES otherwise.
C12_LockGated ==
    (last.op = "Setlkw" /\ statxMode = "btime" /\ Exists(pre, last.path)) =>
        /\ last.fwd > 0 <=> Age(last.path) < Grace
        /\ Age(last.path) >= Grace => last.errno = "EACCES"

\* the flag combination MutNode.Open refuses: no write-intent flag, and
\* something other than O_RDONLY left after 0x8000 is cleared (the first open of
\* an O_CREAT request did not return ENOENT)
Refused ==
    /\ last.op = "Open"
    /\ ~(Has(last.flags, "CREAT") /\ ~Exists(pre, Parent(last.path)))
    /\ ~WriteIntent(last.flags)
    /\ Clear(last.flags, "LARGEFILE") # O_RDONLY

\* the error codes of the backing filesystem
BackingErrnos == {"ENOENT", "EEXIST", "ENOTEMPTY"}

\* C13: a refusal by deny or by Open's flag test is returned as EACCES; any
\* other error code is one the backing filesystem returned to a forwarded call.
C13_DenialIsEACCES ==
    /\ (last.verdict \notin {"none", "OK"} \/ Refused) => last.errno = "EACCES"
    /\ last.errno \notin {"OK", "EACCES"} =>
           (last.fwd > 0 /\ last.errno \in BackingErrnos)

\* C13 witness: the lookup of the birth time failed and the caller got EACCES
C13_Witness ==
    /\ last.verdict = "EACCES"
    /\ last.bt = "err"
    /\ last.errno = "EACCES"

\* C14: for a request of a caller, the errno returned and the backing store left
\* are the same whether Log is set or not.
C14_LogNoEffect ==
    (last.op # "none" /\ last.caller) =>
        (last.altErrno = last.errno /\ last.altSame)

\* C14 witness: with Log set, deny allowed a request within grace, wrote its
\* record, and the forwarded call changed the backing store
C14_Witness ==
    /\ Log
    /\ last.caller
    /\ last.verdict = "OK"
    /\ last.logs > 0
    /\ store # pre

\* C15: an Open of an existing object with access mode O_RDONLY and none of
\* O_CREAT, O_APPEND, O_TRUNC is forwarded and succeeds, whatever other flags it
\* carries and whatever Grace and the age are.
C15_ReadOpenForwarded ==
    (last.op = "Open" /\ Exists(pre, last.path) /\ last.flags.acc = 0
        /\ last.flags.bits \cap {"CREAT", "APPEND", "TRUNC"} = {}) =>
            (last.fwd > 0 /\ last.errno = "OK" /\ last.handle)

\* C16: main ends with exit status 2 when fewer than two path arguments are
\* given and when a path argument is not an existing directory, and fs.Mount
\* has not been called.
C16_UsageExit ==
    proc \in {"usage", "nodir"} => (ExitStatus(proc) = 2 /\ ~MountAttempted(proc))

\* C17: deny returns OK or EACCES for every request context and both values of
\* Log; the process never panics.
C17_NoPanic ==
    proc # "panic" /\ last.verdict \in {"none", "OK", "EACCES"}

C19_ForwardedOnce ==
    (Destructive /\ last.verdict = "OK") => last.fwd = 1

\* C20: with Log set, every EACCES the node returns and every allow within
\* grace comes with exactly one log record; with Log unset no record is written.
C20_AuditComplete ==
    /\ Log => ((last.errno = "EACCES" \/ last.verdict = "OK") => last.logs = 1)
    /\ ~Log => last.logs = 0

\* the object at p when the handler returned is the object that was there when
\* it was entered (a Rename puts another object at its destination)
SameObject(p) ==
    /\ Exists(pre, p)
    /\ Exists(store, p)
    /\ ~(last.op = "Rename" /\ last.errno = "OK" /\ p = last.dst)

C22_DenialPermanent ==
    (last.verdict # "none" /\ last.chk \in denied) => last.verdict = "EACCES"

\* C23: with Grace = 0, a create request for a file that an earlier create
\* request made and its creator wrote to is answered EACCES and leaves the file
\* as it is.
C23_SecondCreate ==
    (Grace = 0 /\ last.op \in {"Create", "Open"} /\ Has(last.flags, "CREAT")
        /\ ~Exists(orig, last.path) /\ pre[last.path].content = "written") =>
            (last.errno = "EACCES" /\ store[last.path] = pre[last.path])

\* C24: when a handler forwards after deny returned OK, the object at the path
\* is still the one whose birth time deny read, and its age is still less than
\* Grace.
C24_CheckThenForward ==
    [][(run.op # "none" /\ run.depth = 0 /\ run'.op = "none") =>
          (/\ Exists(store, run.chk)
           /\ store[run.chk].btime = run.seen
           /\ Since(run.seen) < Grace)]_vars

\* C25: once the mount is served no step changes Grace or Log.
C25_ConfigFrozen ==
    [][proc = "serving" => (Grace' = Grace /\ Log' = Log)]_vars

\* C25 witness: main has set Grace and Log from the options and a handler has
\* since changed the backing store
C25_Witness ==
    /\ proc = "serving"
    /\ Grace > 0
    /\ Log
    /\ last.op # "none"
    /\ store # orig

\* C26: no handler calls itself: a running handler is never more than one frame
\* deep, and the process does not end on a stack overflow.
C26_NoSelfCall ==
    run.depth <= 1 /\ proc # "panic"

====
